---- MODULE Spec2Model ----
(***************************************************************************)
(* glyph_overlaps (src/src/main.rs): load glyphs, build their outline,     *)
(* and look for points where the nonzero and the even-odd fill rule        *)
(* disagree, either by sampling the winding number (compute_winding_a_lot) *)
(* or by rendering both rules and comparing pixels (image_diff).           *)
(*                                                                         *)
(* Coordinates are f64 in the program.  Here a coordinate is an integer    *)
(* count of 1/Scale font units, inputs are multiples of half a font unit,  *)
(* so that the 10% margin, floor, ceil and pixel centres are all exact.    *)
(***************************************************************************)
EXTENDS Integers, Sequences, FiniteSets, TLC

\* ------------------------------------------------------------ bounds
\* Longest command line (number of file arguments) the model explores.
MaxArgs == 2

\* ------------------------------------------------------- fixed point
\* Model units per font unit: halves for the inputs, tenths for the margin.
Scale == 2 * 10

U(n) == n * Scale
Hf(n) == n * (Scale \div 2)

Min2(a, b) == IF a <= b THEN a ELSE b
Max2(a, b) == IF a >= b THEN a ELSE b

\* f64::floor and f64::ceil, on a value counted in 1/Scale units.
Floor(v) == (v \div Scale) * Scale
Ceil(v) == -Floor(-v)

\* Rust's % on i32 truncates toward zero: (-1) % 2 is -1.
RustRem(a, n) == IF a >= 0 THEN a % n ELSE -((-a) % n)

\* ------------------------------------------------- GlyphPathBuilder
\* fontir's builder is a dependency; it is modelled from its description.
NoErr == "none"

NewBuilder ==
    [open |-> FALSE, start |-> <<0, 0>>, last |-> <<0, 0>>,
     segs |-> <<>>, offs |-> <<>>, subpaths |-> <<>>]

Ok(b) == [err |-> NoErr, b |-> b]
Err(e, b) == [err |-> e, b |-> b]

move_to(b, p) ==
    IF b.open THEN Err("UnterminatedContour", b)
    ELSE Ok([b EXCEPT !.open = TRUE, !.start = p, !.last = p, !.segs = <<>>])

line_to(b, p) ==
    IF ~b.open \/ b.offs # <<>> THEN Err("MalformedContour", b)
    ELSE Ok([b EXCEPT !.segs = Append(@, [kind |-> "L", pts |-> <<p>>]),
                      !.last = p])

offcurve(b, p) ==
    IF ~b.open THEN Err("MalformedContour", b)
    ELSE Ok([b EXCEPT !.offs = Append(@, p)])

curve_to(b, p) ==
    IF ~b.open \/ Len(b.offs) # 2 THEN Err("MalformedContour", b)
    ELSE Ok([b EXCEPT
               !.segs = Append(@, [kind |-> "C",
                                   pts |-> <<b.offs[1], b.offs[2], p>>]),
               !.offs = <<>>, !.last = p])

Mid(p, q) == <<(p[1] + q[1]) \div 2, (p[2] + q[2]) \div 2>>

RECURSIVE QuadSegs(_, _, _)
\* One QuadTo per buffered off-curve point: an implied on-curve midpoint
\* between two consecutive ones, the on-curve point p after the last.
QuadSegs(offs, i, p) ==
    IF i > Len(offs) THEN <<>>
    ELSE <<[kind |-> "Q",
            pts |-> <<offs[i],
                      IF i < Len(offs) THEN Mid(offs[i], offs[i + 1]) ELSE p>>]>>
         \o QuadSegs(offs, i + 1, p)

qcurve_to(b, p) ==
    IF ~b.open THEN Err("MalformedContour", b)
    ELSE IF b.offs = <<>> THEN Ok(b)
    ELSE Ok([b EXCEPT !.segs = @ \o QuadSegs(b.offs, 1, p),
                      !.offs = <<>>, !.last = p])

end_path(b) ==
    IF ~b.open THEN Err("UnterminatedContour", b)
    ELSE IF b.offs # <<>> THEN Err("MalformedContour", b)
    ELSE LET segs == IF b.last # b.start
                     THEN Append(b.segs, [kind |-> "L", pts |-> <<b.start>>])
                     ELSE b.segs
         IN Ok([b EXCEPT !.subpaths = Append(@, [start |-> b.start,
                                                 segs |-> segs]),
                         !.open = FALSE, !.segs = <<>>])

build(b) ==
    IF b.subpaths = <<>> THEN [err |-> "EmptyGlyph", path |-> <<>>]
    ELSE [err |-> NoErr, path |-> b.subpaths]

\* ------------------------------------------------------- to_bezpath
\* One node of a contour, dispatched on its point type.
PushNode(b, node) ==
    CASE node.typ = "Move" -> move_to(b, node.p)
      [] node.typ = "Line" -> line_to(b, node.p)
      [] node.typ = "QCurve" -> qcurve_to(b, node.p)
      [] node.typ = "Curve" -> curve_to(b, node.p)
      [] node.typ = "OffCurve" -> offcurve(b, node.p)

\* A conversion that would drop a builder error and go on.
UnwrapSwallow(r) == [err |-> NoErr, b |-> r.b]
\* What a builder error does to the conversion: unwrap_or_else(panic!)
\* hands an Ok on and ends the process on an Err (the caller sees err).
Unwrap(r) == r

RECURSIVE FeedNodes(_, _, _)
FeedNodes(b, nodes, i) ==
    IF i > Len(nodes) THEN Unwrap(end_path(b))
    ELSE LET r == Unwrap(PushNode(b, nodes[i]))
         IN IF r.err # NoErr THEN r ELSE FeedNodes(r.b, nodes, i + 1)

RECURSIVE FeedContours(_, _, _)
FeedContours(b, contours, i) ==
    IF i > Len(contours) THEN Ok(b)
    ELSE LET r == FeedNodes(b, contours[i], 1)
         IN IF r.err # NoErr THEN r ELSE FeedContours(r.b, contours, i + 1)

\* [err, path]: err # NoErr is the panic that ends the process.
to_bezpath(contours) ==
    LET r == FeedContours(NewBuilder, contours, 1)
    IN IF r.err # NoErr THEN [err |-> r.err, path |-> <<>>] ELSE build(r.b)

\* --------------------------------------------------------- geometry
\* Glyph::from_glif: font units are y-up, svg units y-down (Affine::FLIP_Y).
FlipPt(p) == <<p[1], -p[2]>>

FlipSeg(s) == [kind |-> s.kind, pts |-> [k \in DOMAIN s.pts |-> FlipPt(s.pts[k])]]

FlipY(path) ==
    [k \in DOMAIN path |->
        [start |-> FlipPt(path[k].start),
         segs |-> [n \in DOMAIN path[k].segs |-> FlipSeg(path[k].segs[n])]]]

\* Every on-curve and control point of the path.
PathPoints(path) ==
    UNION {{path[k].start} \cup
           UNION {{path[k].segs[n].pts[m] : m \in DOMAIN path[k].segs[n].pts}
                  : n \in DOMAIN path[k].segs}
           : k \in DOMAIN path}

SetMin(S) == CHOOSE v \in S : \A w \in S : v <= w
SetMax(S) == CHOOSE v \in S : \A w \in S : v >= w

\* kurbo's BezPath::bounding_box.  The curved segments of the inputs keep
\* their control points on the chord, so the hull of the points is tight.
Hull(P) ==
    [x0 |-> SetMin({p[1] : p \in P}), y0 |-> SetMin({p[2] : p \in P}),
     x1 |-> SetMax({p[1] : p \in P}), y1 |-> SetMax({p[2] : p \in P})]

bounding_box(path) == Hull(PathPoints(path))

Width(r) == r.x1 - r.x0
Height(r) == r.y1 - r.y0

SegEnd(s) == s.pts[Len(s.pts)]

\* The directed pieces [a, b] of one subpath, each segment as its chord.
SubpathPieces(sp) ==
    [n \in DOMAIN sp.segs |->
        [a |-> IF n = 1 THEN sp.start ELSE SegEnd(sp.segs[n - 1]),
         b |-> SegEnd(sp.segs[n])]]

RECURSIVE PathPieces(_, _)
PathPieces(path, k) ==
    IF k > Len(path) THEN <<>>
    ELSE SubpathPieces(path[k]) \o PathPieces(path, k + 1)

\* kurbo's PathSeg::winding for a line: a ray toward -x, half-open in y.
SegWinding(a, b, p) ==
    LET sign == IF b[2] > a[2] THEN -1 ELSE IF b[2] < a[2] THEN 1 ELSE 0
        lo == Min2(a[2], b[2])
        hi == Max2(a[2], b[2])
        la == b[2] - a[2]
        lb == a[1] - b[1]
        lc == la * a[1] + lb * a[2]
    IN IF sign = 0 \/ p[2] < lo \/ p[2] >= hi THEN 0
       ELSE IF p[1] < Min2(a[1], b[1]) THEN 0
       ELSE IF p[1] >= Max2(a[1], b[1]) THEN sign
       ELSE IF (la * p[1] + lb * p[2] - lc) * sign <= 0 THEN sign ELSE 0

RECURSIVE SumWinding(_, _, _)
SumWinding(pieces, i, p) ==
    IF i > Len(pieces) THEN 0
    ELSE SegWinding(pieces[i].a, pieces[i].b, p) + SumWinding(pieces, i + 1, p)

\* kurbo's BezPath::winding: the signed winding number of the path at p.
winding(path, p) == SumWinding(PathPieces(path, 1), 1, p)

\* ------------------------------------------------------- create_svg
\* The margin-expanded, integer-aligned box (lines 67-74).
\* A box whose minima would be rounded up instead of down.
ExpandCeilMin(bbox, margin) ==
    [x0 |-> Ceil(bbox.x0 - margin), y0 |-> Ceil(bbox.y0 - margin),
     x1 |-> Ceil(bbox.x1 + margin), y1 |-> Ceil(bbox.y1 + margin)]
\* Lines 69-74: the box grown by the margin, floor on the minima, ceil on
\* the maxima.
Expand(bbox, margin) ==
    [x0 |-> Floor(bbox.x0 - margin), y0 |-> Floor(bbox.y0 - margin),
     x1 |-> Ceil(bbox.x1 + margin), y1 |-> Ceil(bbox.y1 + margin)]

Margin(bbox) == Max2(Width(bbox), Height(bbox)) \div 10

ViewBoxOf(bbox) == Expand(bbox, Margin(bbox))

ViewBox(path) == ViewBoxOf(bounding_box(path))

SvgOf(viewbox, glyph, fill_rule) ==
    [viewbox |-> viewbox,
     svg |-> [viewBox |-> <<viewbox.x0, viewbox.y0, viewbox.x1, viewbox.y1>>,
              fill_rule |-> fill_rule,
              d |-> glyph.bezpath]]

\* The svg document: the four numbers written into viewBox="...", the
\* fill rule and the path data.
create_svg(glyph, fill_rule) == SvgOf(ViewBox(glyph.bezpath), glyph, fill_rule)

\* An svg viewBox attribute reads "min-x min-y width height".
SvgDeclaredWidth(svg) == svg.viewBox[3]
SvgDeclaredHeight(svg) == svg.viewBox[4]

\* ----------------------------------------------------- the renderer
Inside(fill_rule, w) == IF fill_rule = "evenodd" THEN w % 2 # 0 ELSE w # 0

\* resvg without anti-aliasing: a pixel is filled when its centre is
\* inside under the fill rule.  Pixel k (from 1) of a pw-wide buffer.
PixelCentre(viewbox, pw, k) ==
    <<viewbox.x0 + U((k - 1) % pw) + Scale \div 2,
      viewbox.y0 + U((k - 1) \div pw) + Scale \div 2>>

RenderPixels(svg, viewbox, pw, ph) ==
    [k \in 1..(pw * ph) |->
        IF Inside(svg.fill_rule, winding(svg.d, PixelCentre(viewbox, pw, k)))
        THEN "gray" ELSE "clear"]

\* A save that would consume the pixmap, leaving it blank.
save_debug_image_touch(pixmap, ok) ==
    [panic |-> IF ok THEN NoErr ELSE "Failed to write",
     pixmap |-> [pixmap EXCEPT !.px = [k \in DOMAIN pixmap.px |-> "clear"]]]
\* save_debug_image: the pixmap is only read; a failed write panics.
save_debug_image(pixmap, ok) ==
    [panic |-> IF ok THEN NoErr ELSE "Failed to write", pixmap |-> pixmap]

\* Pixmap::new(viewbox.width() as u32, viewbox.height() as u32), rendered.
NewPixmap(cs, pw, ph) ==
    [w |-> pw, h |-> ph, px |-> RenderPixels(cs.svg, cs.viewbox, pw, ph)]

Saved(panic, cs, pixmap) ==
    [panic |-> panic, svg |-> cs.svg, viewbox |-> cs.viewbox, pixmap |-> pixmap]

SavedOf(cs, s) == Saved(s.panic, cs, s.pixmap)

RenderOf(cs, pw, ph, save, ok) ==
    IF pw = 0 \/ ph = 0
    THEN Saved("Unable to create pixmap", cs, [w |-> pw, h |-> ph, px |-> <<>>])
    ELSE IF save THEN SavedOf(cs, save_debug_image(NewPixmap(cs, pw, ph), ok))
    ELSE Saved(NoErr, cs, NewPixmap(cs, pw, ph))

RenderSvg(cs, save, ok) ==
    RenderOf(cs, Width(cs.viewbox) \div Scale, Height(cs.viewbox) \div Scale,
             save, ok)

\* render_no_aa (lines 95-119).  The pixmap is viewbox.width() by
\* viewbox.height() pixels; Pixmap::new yields None for a zero size.
render_no_aa(glyph, fill_rule, save, ok) ==
    RenderSvg(create_svg(glyph, fill_rule), save, ok)

\* -------------------------------------------------------- detectors
\* A filter that would keep the equal pairs.
PixelsSame(a, b) == a = b
\* The filter closure of image_diff: |(a, b)| a != b.
PixelsDiffer(a, b) == a # b

RECURSIVE ZipMark(_, _, _, _)
\* The loop of lines 191-199 over the zipped buffers, from pixel k on:
\* every differing pair sets the flag and paints the even-odd pixel pink.
ZipMark(evenodd, nonzero, k, discrepency) ==
    IF k > Len(evenodd) \/ k > Len(nonzero)
    THEN [discrepency |-> discrepency, evenodd |-> evenodd]
    ELSE IF PixelsDiffer(evenodd[k], nonzero[k])
    THEN ZipMark([evenodd EXCEPT ![k] = "pink"], nonzero, k + 1, TRUE)
    ELSE ZipMark(evenodd, nonzero, k + 1, discrepency)

\* A detection that would transform the glyph's own path in place.
ImgOutFlipping(panic, glyph, result, r1, r2, marked) ==
    [kind |-> "image", panic |-> panic,
     glyph |-> [glyph EXCEPT !.bezpath = FlipY(@)], result |-> result,
     evenodd |-> r1.pixmap, nonzero |-> r2.pixmap, marked |-> marked,
     viewbox |-> r1.viewbox, svg1 |-> r1.svg, svg2 |-> r2.svg,
     sampled |-> {}]
\* What image_diff leaves behind: the glyph it borrowed, the boolean it
\* returns (or the panic), and its locals.
ImgOut(panic, glyph, result, r1, r2, marked) ==
    [kind |-> "image", panic |-> panic, glyph |-> glyph, result |-> result,
     evenodd |-> r1.pixmap, nonzero |-> r2.pixmap, marked |-> marked,
     viewbox |-> r1.viewbox, svg1 |-> r1.svg, svg2 |-> r2.svg,
     sampled |-> {}]

SaveDiff(pixmap, save, ok) ==
    IF save THEN save_debug_image(pixmap, ok).panic ELSE NoErr

Compared(glyph, r1, r2, z, save, ok) ==
    ImgOut(SaveDiff([r1.pixmap EXCEPT !.px = z.evenodd], save, ok),
           glyph, z.discrepency, r1, r2, z.evenodd)

SecondRender(glyph, r1, r2, save, ok) ==
    IF r2.panic # NoErr
    THEN ImgOut(r2.panic, glyph, FALSE, r1, r2, <<>>)
    ELSE IF Len(r1.pixmap.px) # Len(r2.pixmap.px)
    THEN ImgOut("Inconsistent pixel count", glyph, FALSE, r1, r2, <<>>)
    ELSE Compared(glyph, r1, r2, ZipMark(r1.pixmap.px, r2.pixmap.px, 1, FALSE),
                  save, ok)

FirstRender(glyph, r1, save, failAt) ==
    IF r1.panic # NoErr
    THEN ImgOut(r1.panic, glyph, FALSE, r1, r1, <<>>)
    ELSE SecondRender(glyph, r1,
                      render_no_aa(glyph, "nonzero", save, failAt # 2),
                      save, failAt # 3)

\* image_diff (lines 180-207).  save is _SAVE_DEBUG_IMAGES; failAt is the
\* debug image (1 even-odd, 2 nonzero, 3 diff) whose write fails, 0 if none.
image_diff(glyph, save, failAt) ==
    FirstRender(glyph, render_no_aa(glyph, "evenodd", save, failAt # 1),
                save, failAt)

\* The end of an inclusive range lo..=hi.
RangeEndInclusive(hi) == hi + 1
\* The exclusive end of a Rust range lo..hi.
RangeEnd(hi) == hi

\* Lines 166-168: whether the two fill rules disagree on a winding number.
Disagree(w) == (w # 0) # (RustRem(w, 2) = 1)

RECURSIVE ScanGrid(_, _, _, _, _)
\* The nested loops of lines 163-172 from (x, y) on, in whole font units;
\* [result, sampled]: the points whose winding was computed.
ScanGrid(path, box, x, y, sampled) ==
    IF x >= RangeEnd(box.x1) THEN [result |-> FALSE, sampled |-> sampled]
    ELSE IF y >= RangeEnd(box.y1) THEN ScanGrid(path, box, x + 1, box.y0, sampled)
    ELSE IF Disagree(winding(path, <<U(x), U(y)>>))
    THEN [result |-> TRUE, sampled |-> sampled \cup {<<U(x), U(y)>>}]
    ELSE ScanGrid(path, box, x, y + 1, sampled \cup {<<U(x), U(y)>>})

\* Lines 155-160: the tight box, floor on the minima, ceil on the maxima,
\* in whole font units.
SampleBox(bb) ==
    [x0 |-> Floor(bb.x0) \div Scale, y0 |-> Floor(bb.y0) \div Scale,
     x1 |-> Ceil(bb.x1) \div Scale, y1 |-> Ceil(bb.y1) \div Scale]

Scanned(glyph, r) ==
    [kind |-> "winding", panic |-> NoErr, glyph |-> glyph,
     result |-> r.result, sampled |-> r.sampled]

StartScan(glyph, box) == Scanned(glyph, ScanGrid(glyph.bezpath, box, box.x0, box.y0, {}))

\* compute_winding_a_lot (lines 153-174).
compute_winding_a_lot(glyph) ==
    StartScan(glyph, SampleBox(bounding_box(glyph.bezpath)))

\* has_fill_rule_discrepency (lines 141-147).
has_fill_rule_discrepency(detection, glyph, save, failAt) ==
    CASE detection = "ComputeWindingALot" -> compute_winding_a_lot(glyph)
      [] detection = "ImageDiff" -> image_diff(glyph, save, failAt)
      [] detection = "FaceGraph" ->
            [kind |-> "facegraph", panic |-> "not yet implemented",
             glyph |-> glyph, result |-> FALSE, sampled |-> {}]

\* ----------------------------------------------------------- inputs
\* Points are given in half font units.
N(typ, x, y) == [typ |-> typ, p |-> <<Hf(x), Hf(y)>>]

Rect(x0, y0, x1, y1) ==
    <<N("Move", x0, y0), N("Line", x1, y0), N("Line", x1, y1), N("Line", x0, y1)>>
RectCW(x0, y0, x1, y1) ==
    <<N("Move", x0, y0), N("Line", x0, y1), N("Line", x1, y1), N("Line", x1, y0)>>

BadCubic1 == <<N("Move", 0, 0), N("OffCurve", 2, 2), N("Curve", 4, 0)>>

GoodGlifs ==
    { [name |-> "sq", contours |-> <<Rect(0, 0, 4, 4)>>],
      [name |-> "sqcw", contours |-> <<RectCW(0, 0, 4, 4)>>],
      [name |-> "frac", contours |-> <<Rect(1, -3, 6, 2)>>],
      [name |-> "origin", contours |-> <<RectCW(1, -5, 5, -1)>>],
      [name |-> "same", contours |-> <<Rect(0, 0, 6, 6), Rect(2, 2, 8, 8)>>],
      [name |-> "bowtie", contours |->
          <<<<N("Move", 0, 0), N("Line", 8, 8), N("Line", 8, 0), N("Line", 0, 8)>>>>],
      [name |-> "hline", contours |-> <<<<N("Move", 0, 1), N("Line", 4, 1)>>>>],
      [name |-> "dot", contours |-> <<<<N("Move", 2, 2), N("Line", 2, 2)>>>>],
      [name |-> "cubic", contours |->
          <<<<N("Move", 0, 0), N("Line", 6, 0), N("OffCurve", 6, 2),
              N("OffCurve", 6, 4), N("Curve", 6, 6), N("Line", 0, 6)>>>>],
      [name |-> "quad", contours |->
          <<<<N("Move", 0, 0), N("Line", 8, 0), N("OffCurve", 8, 2),
              N("OffCurve", 8, 6), N("QCurve", 8, 8), N("Line", 0, 8)>>>>] }

BadGlifs ==
    { [name |-> "bad1", contours |-> <<BadCubic1>>],
      [name |-> "bad3", contours |->
          <<<<N("Move", 0, 0), N("OffCurve", 1, 2), N("OffCurve", 2, 2),
              N("OffCurve", 3, 2), N("Curve", 4, 0)>>>>],
      [name |-> "bad0", contours |->
          <<<<N("Move", 0, 0), N("Curve", 4, 0), N("Line", 4, 4)>>>>],
      [name |-> "goodbad", contours |-> <<Rect(0, 0, 4, 4), BadCubic1>>],
      [name |-> "leftover", contours |->
          <<<<N("Move", 0, 0), N("Line", 4, 0), N("OffCurve", 4, 4)>>>>],
      [name |-> "empty", contours |-> <<>>] }

Glifs == GoodGlifs \cup BadGlifs

GlifNamed(n) == CHOOSE g \in Glifs : g.name = n

\* A command-line argument: its extension, whether norad can load it, and
\* the glyphs it holds (one for a .glif, every glyph of every layer for a .ufo).
Arg(ext, loads, glifs) == [ext |-> ext, loads |-> loads, glifs |-> glifs]

ArgChoices ==
    { Arg("glif", TRUE, <<g>>) : g \in Glifs }
    \cup { Arg("glif", FALSE, <<>>), Arg("designspace", TRUE, <<>>),
           Arg("txt", TRUE, <<>>),
           Arg("ufo", TRUE, <<GlifNamed("sq"), GlifNamed("same")>>),
           Arg("ufo", TRUE, <<GlifNamed("frac"), GlifNamed("bad1")>>) }

Detections == {"ComputeWindingALot", "ImageDiff", "FaceGraph"}

\* ---------------------------------------------------- state machine
VARIABLES
    args,        \* std::env::args().skip(1)
    detection,   \* _OVERLAP_DETECTION
    saveDebug,   \* _SAVE_DEBUG_IMAGES
    pc,          \* "load", "detect", "done" or "panicked"
    ai,          \* the argument from_file loads next
    glyphs,      \* the Vec<Glyph> main collects
    di,          \* the glyph the detection loop is at
    results,     \* has_fill_rule_discrepency of the glyphs before di
    panic,       \* the panic message, once panicked
    last         \* what the latest detection call left behind

vars == <<args, detection, saveDebug, pc, ai, glyphs, di, results, panic, last>>

NoCall == [kind |-> "none", panic |-> NoErr, result |-> FALSE, sampled |-> {}]

Init ==
    /\ args \in UNION {[1..n -> ArgChoices] : n \in 0..MaxArgs}
    /\ detection \in Detections
    /\ saveDebug \in BOOLEAN
    /\ pc = "load"
    /\ ai = 1
    /\ glyphs = <<>>
    /\ di = 1
    /\ results = <<>>
    /\ panic = NoErr
    /\ last = NoCall

\* Glyph::from_glif (lines 29-39) of the k-th glyph of argument a.
from_glif(a, k, glif) ==
    LET r == to_bezpath(glif.contours)
    IN [err |-> r.err,
        glyph |-> [name |-> glif.name, source |-> <<a, k>>,
                   bezpath |-> FlipY(r.path)]]

RECURSIVE FromGlifs(_, _, _)
\* from_glif over the glyphs of one argument, stopping at the first panic.
FromGlifs(a, glifs, k) ==
    IF k > Len(glifs) THEN [err |-> NoErr, glyphs |-> <<>>]
    ELSE LET g == from_glif(a, k, glifs[k])
             rest == FromGlifs(a, glifs, k + 1)
         IN IF g.err # NoErr THEN [err |-> g.err, glyphs |-> <<>>]
            ELSE [err |-> rest.err, glyphs |-> <<g.glyph>> \o rest.glyphs]

\* Glyph::from_file (lines 19-27).
from_file(a, arg) ==
    CASE arg.ext = "designspace" -> [err |-> "not yet implemented", glyphs |-> <<>>]
      [] arg.ext \in {"ufo", "glif"} ->
            IF arg.loads THEN FromGlifs(a, arg.glifs, 1)
            ELSE [err |-> "Unable to load", glyphs |-> <<>>]
      [] OTHER -> [err |-> "No handler", glyphs |-> <<>>]

\* A failure that would be logged only, main going on to the next step.
panic_continue(cur, next) == next
\* A panic unwinds main: the process ends where it is (cur) instead of
\* going on to the next step (next).
panic_unwind(cur, next) == [cur EXCEPT !.pc = "panicked"]

Ctl == [pc |-> pc, ai |-> ai, di |-> di]

Goto(c) == pc' = c.pc /\ ai' = c.ai /\ di' = c.di

\* main, lines 244-248: one argument through Glyph::from_file.
Load ==
    /\ pc = "load"
    /\ ai <= Len(args)
    /\ LET r == from_file(ai, args[ai])
           next == [Ctl EXCEPT !.ai = ai + 1]
       IN IF r.err # NoErr
          THEN /\ Goto(panic_unwind(Ctl, next))
               /\ panic' = r.err
               /\ UNCHANGED glyphs
          ELSE /\ Goto(next)
               /\ glyphs' = glyphs \o r.glyphs
               /\ UNCHANGED panic
    /\ UNCHANGED <<args, detection, saveDebug, results, last>>

\* main, line 250: every argument is loaded.
Loaded ==
    /\ pc = "load"
    /\ ai > Len(args)
    /\ pc' = "detect"
    /\ UNCHANGED <<args, detection, saveDebug, ai, glyphs, di, results, panic, last>>

DetectStep(r) ==
    /\ last' = r
    /\ glyphs' = [glyphs EXCEPT ![di] = r.glyph]
    /\ IF r.panic # NoErr
       THEN /\ Goto(panic_unwind(Ctl, [Ctl EXCEPT !.di = di + 1]))
            /\ panic' = r.panic
            /\ UNCHANGED results
       ELSE /\ Goto([Ctl EXCEPT !.di = di + 1])
            /\ results' = Append(results, r.result)
            /\ UNCHANGED panic

\* main, lines 252-256: one glyph through has_fill_rule_discrepency.
Detect ==
    /\ pc = "detect"
    /\ di <= Len(glyphs)
    /\ \E failAt \in 0..3 :
         DetectStep(has_fill_rule_discrepency(detection, glyphs[di], saveDebug,
                                              failAt))
    /\ UNCHANGED <<args, detection, saveDebug>>

\* main returns.
Finish ==
    /\ pc = "detect"
    /\ di > Len(glyphs)
    /\ pc' = "done"
    /\ UNCHANGED <<args, detection, saveDebug, ai, glyphs, di, results, panic, last>>

Next == Load \/ Loaded \/ Detect \/ Finish

Spec == Init /\ [][Next]_vars

\* ----------------------------------------------------------- claims
LastPath == last.glyph.bezpath

\* The winding number the sampling detector saw at a sampled point.
SampledWinding(p) == winding(LastPath, p)

\* A box rounded outward to whole font units, counted in whole units.
Rounded(r) ==
    [x0 |-> (r.x0 - (r.x0 % Scale)) \div Scale,
     y0 |-> (r.y0 - (r.y0 % Scale)) \div Scale,
     x1 |-> (r.x1 + ((-r.x1) % Scale)) \div Scale,
     y1 |-> (r.y1 + ((-r.y1) % Scale)) \div Scale]

GridPoints(xs, ys) == {<<U(x), U(y)>> : x \in xs, y \in ys}

\* The whole-unit points strictly inside a rounded box.
StrictInterior(b) == GridPoints((b.x0 + 1)..(b.x1 - 1), (b.y0 + 1)..(b.y1 - 1))

\* The whole-unit points of a rounded box, its maximum edges left out.
HalfOpen(b) == GridPoints(b.x0..(b.x1 - 1), b.y0..(b.y1 - 1))

\* The whole-unit points of a rounded box, its edges included.
Closed(b) == GridPoints(b.x0..b.x1, b.y0..b.y1)

\* The box the raster detector renders: the tight box grown by a tenth of
\* its larger side, rounded outward.
TightBox == bounding_box(LastPath)

LargerSide == Max2(TightBox.x1 - TightBox.x0, TightBox.y1 - TightBox.y0)

RasterBox ==
    Rounded([x0 |-> TightBox.x0 - LargerSide \div 10,
             y0 |-> TightBox.y0 - LargerSide \div 10,
             x1 |-> TightBox.x1 + LargerSide \div 10,
             y1 |-> TightBox.y1 + LargerSide \div 10])

\* C1: compute_winding_a_lot returns true exactly when some sampled point has
\* a winding number that is nonzero and even; an odd winding number, positive
\* or negative, never makes the result true.
C1_TrueIffNonzeroEven ==
    last.kind = "winding" =>
        (last.result <=>
            \E p \in last.sampled :
                SampledWinding(p) # 0 /\ SampledWinding(p) % 2 = 0)

\* C2: on two buffers of equal size image_diff returns true exactly when some
\* pixel index holds different pixels in the even-odd and the nonzero buffer,
\* and false when the buffers are equal pixel for pixel.
C2_TrueIffPixelDiffers ==
    (last.kind = "image" /\ last.panic = NoErr) =>
        /\ Len(last.evenodd.px) = Len(last.nonzero.px)
        /\ last.result <=>
             \E k \in 1..Len(last.evenodd.px) :
                 last.evenodd.px[k] # last.nonzero.px[k]

C2_Witness ==
    /\ last.kind = "image"
    /\ last.panic = NoErr
    /\ last.result
    /\ \E k \in 1..Len(last.evenodd.px) : last.evenodd.px[k] = last.nonzero.px[k]
    /\ \E k \in 1..Len(last.evenodd.px) : last.evenodd.px[k] # last.nonzero.px[k]

\* C3 as stated: when the sampling detector exhausts its grid, the points it
\* examined are exactly the whole-unit points strictly inside the
\* margin-expanded box that the raster detector renders.
C3_SamplesStrictInteriorOfRasterBox ==
    (last.kind = "winding" /\ ~last.result) =>
        last.sampled = StrictInterior(RasterBox)

\* C3 amended: the sampling detector examines whole-unit points of the tight
\* box rounded outward, with no margin: only points (x, y) with
\* floor(min) <= x, y < ceil(max), all of them when the grid is exhausted (the
\* minimum edges are sampled, the maximum edges are not); every one of them
\* lies in the box the raster detector renders.
C3_SamplesHalfOpenTightBox ==
    last.kind = "winding" =>
        /\ last.sampled \subseteq HalfOpen(Rounded(TightBox))
        /\ ~last.result => last.sampled = HalfOpen(Rounded(TightBox))
        /\ last.sampled \subseteq Closed(RasterBox)

C3_Witness ==
    /\ last.kind = "winding"
    /\ ~last.result
    /\ TightBox.x0 % Scale # 0
    /\ \E p \in last.sampled : p[1] = U(Rounded(TightBox).x0)
    /\ last.sampled # StrictInterior(RasterBox)

\* What a panic leaves undone: the glyphs without a result and the
\* arguments not loaded, the failing one apart.
LeftUndone ==
    IF ai <= Len(args) THEN Len(glyphs) + (Len(args) - ai)
    ELSE Len(glyphs) - di

\* C4 as stated: a glyph's failure does not end the batch; every other glyph
\* is still processed and gets its result.
C4_FailureLeavesNothingUndone == pc = "panicked" => LeftUndone = 0

\* C4 amended: a failure in one glyph's processing (a builder error, an
\* unsupported or unreadable input, a renderer or debug-image error) panics
\* and ends the run there: nothing is processed after it.  A failure while
\* loading comes before any detection, so no glyph has a result; a failure in
\* the detection of a glyph leaves only the glyphs before it with a result.
\* The run completes only when nothing failed.
C4_FailureEndsTheRun ==
    /\ panic # NoErr => pc = "panicked"
    /\ pc = "panicked" =>
         /\ panic # NoErr
         /\ ~ENABLED Next
         /\ Len(results) = IF ai <= Len(args) THEN 0 ELSE di - 1
    /\ pc = "done" => ai > Len(args) /\ Len(results) = Len(glyphs)

C4_Witness ==
    /\ pc = "panicked"
    /\ ai > Len(args)
    /\ Len(results) >= 1
    /\ di < Len(glyphs)

\* Whether the two fill rules disagree at some pixel centre of the box the
\* raster detector renders.
RulesDisagreeAtAPixel ==
    \E x \in RasterBox.x0..(RasterBox.x1 - 1), y \in RasterBox.y0..(RasterBox.y1 - 1) :
        LET w == winding(LastPath, <<U(x) + Scale \div 2, U(y) + Scale \div 2>>)
        IN (w # 0) # (w % 2 # 0)

\* C6 as stated: image_diff returns its boolean, the same one, whether debug
\* images are saved or not and whether each write succeeds or fails; a
\* failed write does not abort the detection.
C6_WritesNeverMatter ==
    (last.kind = "image" /\ last.panic # "Unable to create pixmap") =>
        /\ last.panic = NoErr
        /\ last.result = RulesDisagreeAtAPixel

\* C6 amended: whenever image_diff returns, with debug images off or with
\* every write succeeding, its boolean is the same (saving never changes
\* it).  A failed write is not just logged: save_debug_image panics, the
\* detection returns nothing for that glyph and the run ends; that happens
\* only with debug images on.
C6_WritesMatterOnlyByPanicking ==
    last.kind = "image" =>
        /\ last.panic = NoErr => last.result = RulesDisagreeAtAPixel
        /\ last.panic = "Failed to write" =>
             saveDebug /\ pc = "panicked" /\ Len(results) = di - 1
        /\ last.panic \in {NoErr, "Failed to write", "Unable to create pixmap"}

C6_Witness ==
    /\ last.kind = "image"
    /\ saveDebug
    /\ last.panic = NoErr
    /\ last.result
    /\ Len(results) = di - 1

\* C7: the margin-expanded box has whole-unit edges, width and height >= 0,
\* and encloses the path: each minimum is <= the tight minimum and each
\* maximum is >= the tight maximum, also when the tight box has no width or
\* no height.
C7_ViewBoxEnclosesPath ==
    last.kind = "image" =>
        /\ \A v \in {last.viewbox.x0, last.viewbox.y0,
                     last.viewbox.x1, last.viewbox.y1} : v % Scale = 0
        /\ last.viewbox.x1 - last.viewbox.x0 >= 0
        /\ last.viewbox.y1 - last.viewbox.y0 >= 0
        /\ last.viewbox.x0 <= TightBox.x0 /\ last.viewbox.y0 <= TightBox.y0
        /\ last.viewbox.x1 >= TightBox.x1 /\ last.viewbox.y1 >= TightBox.y1
        /\ \A p \in PathPoints(LastPath) :
              /\ last.viewbox.x0 <= p[1] /\ p[1] <= last.viewbox.x1
              /\ last.viewbox.y0 <= p[2] /\ p[2] <= last.viewbox.y1

C7_Witness ==
    /\ last.kind = "image"
    /\ TightBox.y0 = TightBox.y1
    /\ TightBox.x0 < TightBox.x1
    /\ last.viewbox.y0 < last.viewbox.y1

BadCurveAt(nodes, i) ==
    /\ nodes[i].typ = "Curve"
    /\ ~(/\ i > 2
         /\ nodes[i - 1].typ = "OffCurve"
         /\ nodes[i - 2].typ = "OffCurve"
         /\ (i > 3 => nodes[i - 3].typ # "OffCurve"))

HasBadCurve(glif) ==
    \E c \in DOMAIN glif.contours :
        \E i \in DOMAIN glif.contours[c] : BadCurveAt(glif.contours[c], i)

ArgHasBadCurve(arg) ==
    arg.loads /\ arg.ext \in {"glif", "ufo"}
    /\ \E k \in DOMAIN arg.glifs : HasBadCurve(arg.glifs[k])

\* C9: a Curve point that comes with a number of buffered off-curve points
\* other than two makes the builder report MalformedContour, and no path is
\* produced: the load never gets past that argument and no glyph comes from
\* a glif with such a point.
C9_BadCurveYieldsNoPath ==
    /\ \A g \in DOMAIN glyphs :
          ~HasBadCurve(args[glyphs[g].source[1]].glifs[glyphs[g].source[2]])
    /\ \A a \in DOMAIN args :
          ArgHasBadCurve(args[a]) =>
              /\ ai <= a
              /\ pc \in {"load", "panicked"}
              /\ (pc = "panicked" /\ ai = a) => panic = "MalformedContour"

C9_Witness ==
    /\ pc = "panicked"
    /\ panic = "MalformedContour"
    /\ args[ai].glifs = <<GlifNamed("bad1")>>
    /\ glyphs # <<>>

\* C10: the width and height the svg declares for the rendered view equal
\* the pixmap's width and height, both (max - min) of the expanded box, and
\* both renders use these dimensions.
C10_DeclaredSizeIsPixmapSize ==
    (last.kind = "image" /\ last.panic = NoErr) =>
        /\ SvgDeclaredWidth(last.svg1) = U(last.evenodd.w)
        /\ SvgDeclaredHeight(last.svg1) = U(last.evenodd.h)
        /\ SvgDeclaredWidth(last.svg2) = U(last.nonzero.w)
        /\ SvgDeclaredHeight(last.svg2) = U(last.nonzero.h)
        /\ U(last.evenodd.w) = last.viewbox.x1 - last.viewbox.x0
        /\ U(last.evenodd.h) = last.viewbox.y1 - last.viewbox.y0
        /\ last.evenodd.w = last.nonzero.w /\ last.evenodd.h = last.nonzero.h

====
